---- MODULE Spec2Model ----
(***************************************************************************)
(* html2pdf.py: batch conversion of the HTML files of a directory to PDF   *)
(* through Word's automation interface.  The model follows                 *)
(* convert_all_html_to_pdf statement by statement; every automation call   *)
(* either returns or raises.  Python floats are modelled as binary         *)
(* floating-point numbers with a Prec-bit significand, every arithmetic    *)
(* result rounded to nearest.                                              *)
(***************************************************************************)
EXTENDS Integers, Sequences, FiniteSets, TLC

(***************************************************************************)
(* Bounds of the model.                                                    *)
(***************************************************************************)
\* significand bits of a modelled float (a Python float has 53)
Prec == 10
\* file stems 1..MaxStems; a directory holds any subset of Stems \X Exts
MaxStems == 3
\* a document has 1..MaxSections sections
MaxSections == 2

(***************************************************************************)
(* Floating point.  A length is an integer count of 1/LenUnit point, a     *)
(* scale factor an integer count of 1/ScaleUnit; both grids are finer than *)
(* the significand for the magnitudes the model uses, so rounding is to    *)
(* Prec significant bits, as for a float.                                  *)
(***************************************************************************)
LenUnit == 2^5
ScaleUnit == 2^12

RECURSIVE BitLen(_)
BitLen(n) == IF n <= 0 THEN 0 ELSE 1 + BitLen(n \div 2)

\* the spacing of the floats around q (in grid units)
Ulp(q) == IF BitLen(q) > Prec THEN 2^(BitLen(q) - Prec) ELSE 1

\* n/d (n >= 0, d > 0) rounded to the nearest float
RoundPos(n, d) == LET u == Ulp(n \div d) IN u * ((2 * n + d * u) \div (2 * d * u))

Round(n, d) == IF n >= 0 THEN RoundPos(n, d) ELSE 0 - RoundPos(0 - n, d)

\* the decimal literal num/den as a length, as a scale
Length(num, den) ==
    IF den % LenUnit = 0 THEN Round(num, den \div LenUnit) ELSE Round(num * LenUnit, den)
Scalar(num, den) == Round(num * ScaleUnit, den)

FSub(a, b) == Round(a - b, 1)
\* length * length-valued factor, length / length, length * scale
FMul(a, b) == Round(a * b, LenUnit)
FDiv(a, b) == Round(a * ScaleUnit, b)
FScale(a, s) == Round(a * s, ScaleUnit)

One == ScaleUnit
Min(a, b) == IF a <= b THEN a ELSE b
Min3(a, b, c) == Min(a, Min(b, c))

(***************************************************************************)
(* CONFIGURATION                                                           *)
(***************************************************************************)
HEADER_TEXT == "23BT521 CHEMICAL ENGINEERING LABORATORY FOR BIOTECHNOLOGISTS"
FOOTER_TEXT == "GNANAMANI COLLEGE OF TECHNOLOGY"
WD_PAPER_A4 == 7
WD_ORIENT_PORTRAIT == 0
WD_ALIGN_PARAGRAPH_LEFT == 0
WD_ALIGN_PARAGRAPH_CENTER == 1
WD_ALIGN_PARAGRAPH_RIGHT == 2
WD_HEADER_FOOTER_PRIMARY == 1
WD_FIELD_PAGE == 33
WD_COLOR_GRAY25 == 12632256
WD_COLOR_BLACK == 0

(***************************************************************************)
(* HELPERS                                                                 *)
(***************************************************************************)
\* cm * 28.3464567; cm is a length-grid value
cm_to_points(cm) == FMul(cm, Length(283464567, 10000000))

\* PageWidth and PageHeight Word reports for wdPaperA4, portrait (points)
A4Width == Length(5953, 10)
A4Height == Length(8419, 10)

set_page_setup(d) ==
    [d EXCEPT !.ps = [PaperSize |-> WD_PAPER_A4,
                      Orientation |-> WD_ORIENT_PORTRAIT,
                      PageWidth |-> A4Width,
                      PageHeight |-> A4Height,
                      TopMargin |-> cm_to_points(Length(25, 10)),
                      BottomMargin |-> cm_to_points(Length(20, 10)),
                      LeftMargin |-> cm_to_points(Length(25, 10)),
                      RightMargin |-> cm_to_points(Length(20, 10)),
                      HeaderDistance |-> cm_to_points(Length(10, 10)),
                      FooterDistance |-> cm_to_points(Length(10, 10))]]

RawWidth(ps) == FSub(FSub(ps.PageWidth, ps.LeftMargin), ps.RightMargin)
RawHeight(ps) ==
    FSub(FSub(FSub(FSub(ps.PageHeight, ps.TopMargin), ps.BottomMargin),
              ps.HeaderDistance), ps.FooterDistance)

Misconfigured(ps) == RawWidth(ps) <= 0 \/ RawHeight(ps) <= 0

content_width(ps) ==
    IF Misconfigured(ps) THEN FScale(ps.PageWidth, Scalar(9, 10)) ELSE RawWidth(ps)
content_height(ps) ==
    IF Misconfigured(ps) THEN FScale(ps.PageHeight, Scalar(8, 10)) ELSE RawHeight(ps)

\* a variant that fits the width only
ScaleOfWidthOnly(cw, ch, w, h) == Min(One, FDiv(cw, w))

\* scale = min(1.0, content_width / w, content_height / h)
ScaleOf(cw, ch, w, h) == Min3(One, FDiv(cw, w), FDiv(ch, h))


(***************************************************************************)
(* resize_images_to_fit.  An image is [w, h] plus a record of what the     *)
(* call did to it: w0, h0 the size before the call, setW/setH whether      *)
(* Width/Height was assigned, err whether one of its accesses raised.      *)
(* mode names the access of this image that raises: "ok" (none), "read"    *)
(* (w = ish.Width or h = ish.Height), "writeW" (ish.Width = ...),          *)
(* "writeH" (ish.Height = ...).  A raising assignment assigns nothing.     *)
(***************************************************************************)
Modes == {"ok", "read", "writeW", "writeH"}

Fresh(img) == [w |-> img.w, h |-> img.h, w0 |-> img.w, h0 |-> img.h,
               setW |-> FALSE, setH |-> FALSE, err |-> FALSE]

\* a variant that scales each dimension by its own ratio
ResizeShapeUneven(img, cw, ch, mode) ==
    IF mode # "ok" THEN [img EXCEPT !.err = TRUE]
    ELSE IF img.w <= 0 \/ img.h <= 0 THEN img
    ELSE IF ScaleOf(cw, ch, img.w, img.h) < One
         THEN [img EXCEPT !.w = FScale(img.w, Min(One, FDiv(cw, img.w))), !.setW = TRUE,
                          !.h = FScale(img.h, Min(One, FDiv(ch, img.h))), !.setH = TRUE]
         ELSE img

\* a variant that assigns whenever scale <= 1.0
ResizeShapeAlways(img, cw, ch, mode) ==
    IF mode # "ok" THEN [img EXCEPT !.err = TRUE]
    ELSE IF img.w <= 0 \/ img.h <= 0 THEN img
    ELSE LET scale == ScaleOf(cw, ch, img.w, img.h) IN
         IF scale <= One
         THEN [img EXCEPT !.w = FScale(img.w, scale), !.setW = TRUE,
                          !.h = FScale(img.h, scale), !.setH = TRUE]
         ELSE img

ResizeShape(img, cw, ch, mode) ==
    IF mode = "read" THEN [img EXCEPT !.err = TRUE]
    ELSE IF img.w <= 0 \/ img.h <= 0 THEN img
    ELSE LET scale == ScaleOf(cw, ch, img.w, img.h) IN
         IF scale < One
         THEN CASE mode = "writeW" -> [img EXCEPT !.err = TRUE]
                [] mode = "writeH" -> [img EXCEPT !.w = FScale(img.w, scale),
                                                  !.setW = TRUE, !.err = TRUE]
                [] OTHER -> [img EXCEPT !.w = FScale(img.w, scale), !.setW = TRUE,
                                        !.h = FScale(img.h, scale), !.setH = TRUE]
         ELSE img

resize_images_to_fit(d, mi, ms) ==
    LET cw == content_width(d.ps)
        ch == content_height(d.ps)
    IN [d EXCEPT
          !.InlineShapes = [k \in DOMAIN d.InlineShapes |->
                              ResizeShape(d.InlineShapes[k], cw, ch, mi[k])],
          !.Shapes = [k \in DOMAIN d.Shapes |->
                        ResizeShape(d.Shapes[k], cw, ch, ms[k])]]

(***************************************************************************)
(* apply_header_footer.  A header is its range's text and formatting; a    *)
(* footer is the sequence of its paragraphs.                               *)
(***************************************************************************)
\* f_range.Text = "": one empty paragraph is left (the final paragraph mark)
ClearRange(paras) == <<[paras[Len(paras)] EXCEPT !.text = "", !.field = 0]>>

\* the page-number paragraph: Paragraphs(1), emptied, centered, bold, black
PageParagraph(paras) ==
    [paras EXCEPT ![1] = [@ EXCEPT !.text = "",
                                   !.align = WD_ALIGN_PARAGRAPH_CENTER,
                                   !.bold = TRUE, !.italic = FALSE,
                                   !.color = WD_COLOR_BLACK]]

\* page_rng.Fields.Add(page_rng, WD_FIELD_PAGE)
AddPageField(paras) == [paras EXCEPT ![1] = [@ EXCEPT !.field = WD_FIELD_PAGE]]

\* page_rng.InsertParagraphAfter(): a new empty paragraph of the same format
InsertParagraphAfter(paras) ==
    <<paras[1], [paras[1] EXCEPT !.text = "", !.field = 0]>> \o Tail(paras)

\* the last paragraph: FOOTER_TEXT, right, 9pt, italic, grey
FooterParagraph(paras) ==
    [paras EXCEPT ![Len(paras)] = [@ EXCEPT !.text = FOOTER_TEXT, !.field = 0,
                                            !.align = WD_ALIGN_PARAGRAPH_RIGHT,
                                            !.size = 9, !.italic = TRUE,
                                            !.color = WD_COLOR_GRAY25]]

StampSection(sec) ==
    [header |-> [text |-> HEADER_TEXT, align |-> WD_ALIGN_PARAGRAPH_RIGHT,
                 size |-> 9, italic |-> TRUE, color |-> WD_COLOR_GRAY25],
     footer |-> FooterParagraph(InsertParagraphAfter(AddPageField(
                    PageParagraph(ClearRange(sec.footer)))))]

\* a variant that stamps doc.Sections(1) only
apply_header_footer_first(d) ==
    [d EXCEPT !.Sections = [k \in DOMAIN d.Sections |->
                              IF k = 1 THEN StampSection(d.Sections[k]) ELSE d.Sections[k]]]

\* for section in doc.Sections
apply_header_footer(d) ==
    [d EXCEPT !.Sections = [k \in DOMAIN d.Sections |-> StampSection(d.Sections[k])]]

(***************************************************************************)
(* The directory.  A file name is [stem, ext]; names sort by stem, then    *)
(* by extension ("htm" before "html").                                     *)
(***************************************************************************)
Stems == 1..MaxStems
Exts == {"htm", "html"}
Names == [stem : Stems, ext : Exts]

ExtRank(e) == IF e = "htm" THEN 0 ELSE 1
Before(f, g) ==
    f.stem < g.stem \/ (f.stem = g.stem /\ ExtRank(f.ext) < ExtRank(g.ext))

RECURSIVE sorted(_)
sorted(S) ==
    IF S = {} THEN <<>>
    ELSE LET m == CHOOSE f \in S : \A g \in S \ {f} : Before(f, g)
         IN <<m>> \o sorted(S \ {m})

\* input_path.glob("*.html")
glob(d) == {f \in d : f.ext = "html"}

\* output_path / (html_file.stem + ".pdf")
pdf_file(f) == [stem |-> f.stem, ext |-> "pdf"]

(***************************************************************************)
(* Documents as Word opens them: the input of one file.                    *)
(***************************************************************************)
Pt(n) == n * LenUnit

\* Letter with one-inch margins, and a page whose margins leave no content
LetterSetup ==
    [PaperSize |-> 2, Orientation |-> 0, PageWidth |-> Pt(612), PageHeight |-> Pt(792),
     TopMargin |-> Pt(72), BottomMargin |-> Pt(72), LeftMargin |-> Pt(72),
     RightMargin |-> Pt(72), HeaderDistance |-> Pt(36), FooterDistance |-> Pt(36)]
NarrowSetup ==
    [LetterSetup EXCEPT !.Orientation = 1, !.PageWidth = Pt(144), !.PageHeight = Pt(792)]

BodyParagraph(t) ==
    [text |-> t, field |-> 0, align |-> WD_ALIGN_PARAGRAPH_LEFT, bold |-> FALSE,
     italic |-> FALSE, size |-> 12, color |-> WD_COLOR_BLACK]
EmptyHeader ==
    [text |-> "", align |-> WD_ALIGN_PARAGRAPH_LEFT, size |-> 12, italic |-> FALSE,
     color |-> WD_COLOR_BLACK]
\* a footer as imported: empty, or three paragraphs of earlier content
FooterChoices ==
    {<<BodyParagraph("")>>,
     <<BodyParagraph("old"), BodyParagraph("page"), BodyParagraph("footer")>>}
SectionChoices == [header : {EmptyHeader}, footer : FooterChoices]

\* image sizes: no width; inside the content area; exactly the content
\* area; too wide; too high; too wide and too high
ImageChoices ==
    {[w |-> 0, h |-> Pt(100)], [w |-> Pt(200), h |-> Pt(300)],
     [w |-> content_width(set_page_setup([ps |-> LetterSetup]).ps),
      h |-> content_height(set_page_setup([ps |-> LetterSetup]).ps)],
     [w |-> Pt(540), h |-> Pt(100)], [w |-> Pt(400), h |-> Pt(700)],
     [w |-> Pt(600), h |-> Pt(900)]}
ShapeLists == {<<>>} \cup {<<Fresh(img)>> : img \in ImageChoices}

SeqsUpTo(S, n) == UNION {[1..k -> S] : k \in 1..n}

DocChoices ==
    [ps : {LetterSetup, NarrowSetup}, InlineShapes : ShapeLists, Shapes : ShapeLists,
     Sections : SeqsUpTo(SectionChoices, MaxSections)]

\* the one document every file of a batch run holds
BatchDoc ==
    [ps |-> LetterSetup,
     InlineShapes |-> <<Fresh([w |-> Pt(600), h |-> Pt(900)])>>,
     Shapes |-> <<>>,
     Sections |-> <<[header |-> EmptyHeader, footer |-> <<BodyParagraph("old")>>]>>]

NoDoc == [ps |-> LetterSetup, InlineShapes |-> <<>>, Shapes |-> <<>>, Sections |-> <<>>]
Unbound == 0

(***************************************************************************)
(* convert_all_html_to_pdf                                                 *)
(***************************************************************************)
VARIABLES
    dir,        \* the names in the input directory
    content,    \* the document Word builds from each file
    pc,         \* the statement about to run
    exc,        \* the exception propagating out of the function, or "none"
    todo,       \* sorted(input_path.glob("*.html"))
    i,          \* index in todo of html_file
    doc,        \* the local variable doc: Unbound, or a document handle
    cur,        \* the content of the document of the file being processed
    openDocs,   \* the handles of the documents open in Word
    opened,     \* history: the handles Documents.Open returned
    attempted,  \* history: the indices of the files Documents.Open was called for
    raisedIn,   \* history: the indices of the files a step of which raised
    exported,   \* the PDF names written to the output directory
    logged,     \* the file names of the "Failed for" lines printed
    closeLog,   \* history: the Close calls, in order
    started,    \* how many times Word.Application was dispatched
    quitCalls   \* how many times word.Quit() was called

vars == <<dir, content, pc, exc, todo, i, doc, cur, openDocs, opened, attempted,
          raisedIn, exported, logged, closeLog, started, quitCalls>>

input == <<dir, content>>
hist == <<opened, attempted, raisedIn, exported, logged, closeLog>>

Start ==
    /\ pc = "start" /\ exc = "none" /\ todo = <<>> /\ i = 0 /\ doc = Unbound
    /\ cur = NoDoc /\ openDocs = {} /\ opened = {} /\ attempted = {}
    /\ raisedIn = {} /\ exported = {} /\ logged = {} /\ closeLog = <<>>
    /\ started = 0 /\ quitCalls = 0

\* a batch: any directory, every file holding the same document
Init ==
    /\ dir \in SUBSET Names
    /\ content = [f \in dir |-> BatchDoc]
    /\ Start

\* one HTML file, holding any document
InitDoc ==
    /\ dir = {[stem |-> 1, ext |-> "html"]}
    /\ content \in [dir -> DocChoices]
    /\ Start

\* line 197: word = win32.Dispatch("Word.Application")
Dispatch ==
    /\ pc = "start"
    /\ \/ /\ started' = started + 1
          /\ pc' = "visible"
          /\ exc' = exc
       \/ /\ pc' = "raised"
          /\ exc' = "dispatch"
          /\ started' = started
    /\ UNCHANGED <<input, hist, todo, i, doc, cur, openDocs, quitCalls>>

\* line 198: word.Visible = visible, before the try statement
SetVisible ==
    /\ pc = "visible"
    /\ \/ pc' = "glob" /\ exc' = exc
       \/ pc' = "raised" /\ exc' = "visible"
    /\ UNCHANGED <<input, hist, todo, i, doc, cur, openDocs, started, quitCalls>>

\* the statement after the body of the loop for file k
AfterFile(k) == IF k < Len(todo) THEN "open" ELSE "quit"

\* line 201: sorted(input_path.glob("*.html")), evaluated once
Enumerate ==
    /\ pc = "glob"
    /\ \/ /\ todo' = sorted(glob(dir))
          /\ i' = IF todo' = <<>> THEN 0 ELSE 1
          /\ pc' = IF todo' = <<>> THEN "quit" ELSE "open"
          /\ exc' = exc
       \/ /\ pc' = "quit"
          /\ exc' = "glob"
          /\ UNCHANGED <<todo, i>>
    /\ UNCHANGED <<input, hist, doc, cur, openDocs, started, quitCalls>>

\* line 206: doc = word.Documents.Open(str(html_file)); the handle is i
Open ==
    /\ pc = "open"
    /\ attempted' = attempted \cup {i}
    /\ \/ /\ doc' = i
          /\ cur' = content[todo[i]]
          /\ openDocs' = openDocs \cup {i}
          /\ opened' = opened \cup {i}
          /\ pc' = "setup"
          /\ raisedIn' = raisedIn
       \/ /\ pc' = "handler"
          /\ raisedIn' = raisedIn \cup {i}
          /\ UNCHANGED <<doc, cur, openDocs, opened>>
    /\ UNCHANGED <<input, exc, todo, i, exported, logged, closeLog, started, quitCalls>>

\* a statement of the try body raising
Raise ==
    /\ pc' = "handler"
    /\ raisedIn' = raisedIn \cup {i}
    /\ UNCHANGED <<input, exc, todo, i, doc, cur, openDocs, opened, attempted,
                   exported, logged, closeLog, started, quitCalls>>

\* line 209: set_page_setup(doc)
SetPageSetup ==
    /\ pc = "setup"
    /\ \/ /\ cur' = set_page_setup(cur)
          /\ pc' = "resize"
          /\ UNCHANGED <<input, hist, exc, todo, i, doc, openDocs, started, quitCalls>>
       \/ Raise

\* line 212: resize_images_to_fit(doc); an access of one image that raises
\* is swallowed, reading the page setup or the collections is not
ResizeImages ==
    /\ pc = "resize"
    /\ \/ /\ \E mi \in [DOMAIN cur.InlineShapes -> Modes],
                ms \in [DOMAIN cur.Shapes -> Modes] :
                cur' = resize_images_to_fit(cur, mi, ms)
          /\ pc' = "hf"
          /\ UNCHANGED <<input, hist, exc, todo, i, doc, openDocs, started, quitCalls>>
       \/ Raise

\* line 215: apply_header_footer(doc)
ApplyHeaderFooter ==
    /\ pc = "hf"
    /\ \/ /\ cur' = apply_header_footer(cur)
          /\ pc' = "export"
          /\ UNCHANGED <<input, hist, exc, todo, i, doc, openDocs, started, quitCalls>>
       \/ Raise

\* lines 218-220: export_to_pdf(doc, pdf_file)
Export ==
    /\ pc = "export"
    /\ \/ /\ exported' = exported \cup {pdf_file(todo[i])}
          /\ pc' = "close"
          /\ UNCHANGED <<input, exc, todo, i, doc, cur, openDocs, opened, attempted,
                         raisedIn, logged, closeLog, started, quitCalls>>
       \/ Raise

\* one doc.Close(SaveChanges=False) call, as logged
CloseCall(d) == [file |-> i, doc |-> d, SaveChanges |-> FALSE, wasOpen |-> d \in openDocs]

\* line 223: doc.Close(SaveChanges=False); a call that raises closes nothing
Close ==
    /\ pc = "close"
    /\ closeLog' = Append(closeLog, CloseCall(doc))
    /\ \/ /\ openDocs' = openDocs \ {doc}
          /\ pc' = AfterFile(i)
          /\ i' = IF i < Len(todo) THEN i + 1 ELSE i
          /\ cur' = NoDoc
          /\ raisedIn' = raisedIn
       \/ /\ pc' = "handler"
          /\ raisedIn' = raisedIn \cup {i}
          /\ UNCHANGED <<openDocs, i, cur>>
    /\ UNCHANGED <<input, exc, todo, doc, opened, attempted, exported, logged,
                   started, quitCalls>>

\* a variant that leaves the loop after the first failure
HandlerStops ==
    /\ pc = "handler"
    /\ logged' = logged \cup {todo[i]}
    /\ \/ /\ doc = Unbound
          /\ UNCHANGED <<closeLog, openDocs>>
       \/ /\ doc # Unbound
          /\ closeLog' = Append(closeLog, CloseCall(doc))
          /\ \/ doc \in openDocs /\ openDocs' = openDocs \ {doc}
             \/ openDocs' = openDocs
    /\ pc' = "quit"
    /\ cur' = NoDoc
    /\ UNCHANGED <<input, exc, todo, i, doc, opened, attempted, raisedIn, exported,
                   started, quitCalls>>

\* a variant that logs the failure and does not close the document
HandlerNoClose ==
    /\ pc = "handler"
    /\ logged' = logged \cup {todo[i]}
    /\ pc' = AfterFile(i)
    /\ i' = IF i < Len(todo) THEN i + 1 ELSE i
    /\ cur' = NoDoc
    /\ UNCHANGED <<input, exc, todo, doc, openDocs, opened, attempted, raisedIn,
                   exported, closeLog, started, quitCalls>>

\* lines 225-231: except Exception: print the failure, then try doc.Close,
\* swallowing what it raises (the NameError of an unbound doc included)
Handler ==
    /\ pc = "handler"
    /\ logged' = logged \cup {todo[i]}
    /\ \/ /\ doc = Unbound
          /\ UNCHANGED <<closeLog, openDocs>>
       \/ /\ doc # Unbound
          /\ closeLog' = Append(closeLog, CloseCall(doc))
          /\ \/ doc \in openDocs /\ openDocs' = openDocs \ {doc}
             \/ openDocs' = openDocs
    /\ pc' = AfterFile(i)
    /\ i' = IF i < Len(todo) THEN i + 1 ELSE i
    /\ cur' = NoDoc
    /\ UNCHANGED <<input, exc, todo, doc, opened, attempted, raisedIn, exported,
                   started, quitCalls>>

\* lines 233-234: finally: word.Quit(); then the pending exception, if any
Quit ==
    /\ pc = "quit"
    /\ quitCalls' = quitCalls + 1
    /\ \/ /\ exc' = exc
          /\ pc' = IF exc = "none" THEN "done" ELSE "raised"
       \/ /\ exc' = "quit"
          /\ pc' = "raised"
    /\ UNCHANGED <<input, hist, todo, i, doc, cur, openDocs, started>>

Next ==
    \/ Dispatch
    \/ SetVisible
    \/ Enumerate
    \/ Open
    \/ SetPageSetup
    \/ ResizeImages
    \/ ApplyHeaderFooter
    \/ Export
    \/ Close
    \/ Handler
    \/ Quit

Spec == Init /\ [][Next]_vars
SpecDoc == InitDoc /\ [][Next]_vars

(***************************************************************************)
(* Properties                                                              *)
(***************************************************************************)
Returned == pc = "done"
\* the loop over todo has ended (not skipped by an exception before it)
LoopLeft == pc \in {"quit", "done", "raised"} /\ exc \in {"none", "quit"}
Images(d) == {d.InlineShapes[k] : k \in DOMAIN d.InlineShapes}
               \cup {d.Shapes[k] : k \in DOMAIN d.Shapes}
Positive(img) == img.w0 > 0 /\ img.h0 > 0
Abs(x) == IF x >= 0 THEN x ELSE 0 - x
\* the page setup set_page_setup leaves
A4Setup == set_page_setup([ps |-> LetterSetup]).ps

\* C1: once convert_all_html_to_pdf has returned, every .html or .htm file
\* of the input directory has its PDF exported or its failure logged.
C1_EveryHtmlFileHasOutcome ==
    Returned =>
        \A f \in dir : f.ext \in {"html", "htm"} =>
            pdf_file(f) \in exported \/ f \in logged

\* C2: a step of file k that raises is caught and logged under the file's
\* name, and the loop goes on: files are attempted in order, and when the
\* loop is left every file of the sorted list has been attempted.
C2_FailureDoesNotStopBatch ==
    /\ \A k \in raisedIn : ~(pc = "handler" /\ i = k) => todo[k] \in logged
    /\ pc \in {"open", "setup", "resize", "hf", "export", "close", "handler"} =>
          attempted \in {1..i, 1..(i - 1)}
    /\ LoopLeft => attempted = 1..Len(todo)

C2_Witness ==
    /\ Returned
    /\ \E k \in raisedIn : \E j \in attempted :
          k < j /\ pdf_file(todo[j]) \in exported /\ todo[k] \in logged

\* C3: before the next file is opened and before Quit, Close with
\* SaveChanges=False has been called on every document that was opened,
\* whether its processing succeeded or failed; nothing is closed with saving.
C3_ClosedBeforeNextOpenAndQuit ==
    /\ pc \in {"open", "quit", "done", "raised"} =>
          \A d \in opened : \E k \in DOMAIN closeLog :
              closeLog[k].doc = d /\ closeLog[k].file = d /\ ~closeLog[k].SaveChanges
    /\ \A k \in DOMAIN closeLog : ~closeLog[k].SaveChanges

C3_Witness ==
    /\ pc = "open" /\ i = 2
    /\ 1 \in opened /\ 1 \in raisedIn /\ pdf_file(todo[1]) \notin exported

\* C4: in a run that obtained the application handle, the application is
\* started once and Quit is called exactly once by the end of the run.
C4_QuitExactlyOnce ==
    (pc \in {"done", "raised"} /\ started >= 1) => (started = 1 /\ quitCalls = 1)

\* C5 as stated: after resize_images_to_fit every image of positive size is
\* its original size times scale = min(1, cw/w, ch/h) in both dimensions when
\* scale < 1 and untouched otherwise, never larger than before, its aspect
\* ratio kept within rounding.
Scaled(img, ps) ==
    LET scale == ScaleOf(content_width(ps), content_height(ps), img.w0, img.h0) IN
    /\ scale < One => img.w = FScale(img.w0, scale) /\ img.h = FScale(img.h0, scale)
    /\ scale >= One => img.w = img.w0 /\ img.h = img.h0
    /\ img.setW <=> scale < One
    /\ img.setH <=> scale < One
    /\ img.w <= img.w0 /\ img.h <= img.h0
    /\ Abs(img.w * img.h0 - img.h * img.w0) <= (img.w * img.h0) \div 2^(Prec - 2)

C6_ImageInBoundsUntouched ==
    pc = "hf" =>
        \A img \in Images(cur) :
            (img.w0 <= content_width(cur.ps) /\ img.h0 <= content_height(cur.ps)) =>
                ~img.setW /\ ~img.setH /\ img.w = img.w0 /\ img.h = img.h0

C6_Witness ==
    /\ pc = "hf"
    /\ \E img \in Images(cur) :
          Positive(img) /\ ~img.err
          /\ img.w0 = content_width(cur.ps) /\ img.h0 = content_height(cur.ps)
    /\ \E img \in Images(cur) : img.setW

\* C8 as stated: when a document has been exported, its page setup is the
\* one set_page_setup configures and every image of positive size resized
\* without error is no wider than the content width and no higher than the
\* content height.
C8_ExportedImagesFit ==
    pc = "close" =>
        /\ cur.ps = A4Setup
        /\ \A img \in Images(cur) : (Positive(img) /\ ~img.err) =>
              img.w <= content_width(A4Setup) /\ img.h <= content_height(A4Setup)

\* C8 amended: the same up to the rounding of the two float operations
\* (the division giving scale, the multiplication by it): a relative excess
\* of at most 2^(2 - Prec).
C8_ExportedImagesFitWithinRounding ==
    pc = "close" =>
        /\ cur.ps = A4Setup
        /\ ~Misconfigured(A4Setup)
        /\ \A img \in Images(cur) : (Positive(img) /\ ~img.err) =>
              /\ (img.w - content_width(A4Setup)) * 2^(Prec - 2) <= content_width(A4Setup)
              /\ (img.h - content_height(A4Setup)) * 2^(Prec - 2) <= content_height(A4Setup)

C8_Witness ==
    /\ pc = "close"
    /\ pdf_file(todo[i]) \in exported
    /\ \E img \in Images(cur) :
          Positive(img) /\ ~img.err /\ img.setW /\ img.w0 > content_width(A4Setup)
    /\ \E img \in Images(cur) :
          Positive(img) /\ ~img.err /\ img.setH /\ img.h0 > content_height(A4Setup)
          /\ img.w0 <= content_width(A4Setup)

\* C9: after apply_header_footer every section has the fixed header text,
\* right-aligned, and a footer of exactly two paragraphs, the centered PAGE
\* field and then the fixed footer text right-aligned; the earlier footer
\* content is gone and the number of sections is what it was.
Stamped(sec) ==
    /\ sec.header.text = HEADER_TEXT
    /\ sec.header.align = WD_ALIGN_PARAGRAPH_RIGHT
    /\ Len(sec.footer) = 2
    /\ sec.footer[1].field = WD_FIELD_PAGE /\ sec.footer[1].text = ""
    /\ sec.footer[1].align = WD_ALIGN_PARAGRAPH_CENTER
    /\ sec.footer[2].text = FOOTER_TEXT /\ sec.footer[2].field = 0
    /\ sec.footer[2].align = WD_ALIGN_PARAGRAPH_RIGHT

C9_EverySectionStamped ==
    pc = "export" =>
        /\ Len(cur.Sections) = Len(content[todo[i]].Sections)
        /\ \A k \in DOMAIN cur.Sections : Stamped(cur.Sections[k])

C9_Witness ==
    /\ pc = "export"
    /\ Len(cur.Sections) = 2
    /\ Len(content[todo[i]].Sections[2].footer) = 3
    /\ Stamped(cur.Sections[2])

\* C10: a Close call made while file i is processed is made on the document
\* opened for file i, and never on a document that is already closed.
C10_HandlePerFile ==
    \A k \in DOMAIN closeLog : closeLog[k].doc = closeLog[k].file /\ closeLog[k].wasOpen
====
